---- MODULE Spec2Model ----
(***************************************************************************)
(* A model of smart_importer/machinelearning_helpers.py.                   *)
(*                                                                         *)
(* The module is a library of helper functions.  Each function is one      *)
(* action: the action draws the call's arguments from bounded sets, runs   *)
(* the function as the Python code runs it and records the arguments and   *)
(* the outcome (the returned value, or the exception that escapes).  The   *)
(* functions keep nothing between calls except the objects they are passed,*)
(* so a behaviour is one call made in an initial state.                    *)
(*                                                                         *)
(*   op     - the function called last ("init" before any call)            *)
(*   args   - the arguments of that call                                   *)
(*   result - what the call returned, or Raise(exception)                  *)
(*   heap   - the mutable objects (posting lists, metadata dicts) that     *)
(*            transaction tuples refer to, after the call                  *)
(*   pre    - the same objects before the call                             *)
(*                                                                         *)
(* The loader, the merger and the adapters write to no object, so their    *)
(* entries are plain values (postings inline).  The annotators write to    *)
(* the posting list and the metadata dict of the transaction they are      *)
(* given, so there a transaction is a tuple holding references into heap.  *)
(***************************************************************************)
EXTENDS Integers, Sequences, FiniteSets, TLC

VARIABLES op, args, result, heap, pre

vars == <<op, args, result, heap, pre>>

(***************************************************************************)
(* Python values.  TLC cannot compare a string with a sequence, so every   *)
(* value whose Python type varies is tagged.                               *)
(***************************************************************************)
None == [tag |-> "None"]

Str(s) == [tag |-> "str", val |-> s]

List(items) == [tag |-> "list", items |-> items]

Raise(exc) == [tag |-> "raise", exc |-> exc]

\* bool(x) for the values the module tests for truth
Truthy(x) ==
    CASE x.tag = "None" -> FALSE
      [] x.tag = "str"  -> x.val # ""
      [] x.tag = "list" -> x.items # <<>>
      [] OTHER          -> TRUE

NoObjects == <<>>

\* All sequences over S of length at most n
SeqsUpTo(S, n) == UNION {[1..k -> S] : k \in 0..n}

(***************************************************************************)
(* Bounds                                                                  *)
(***************************************************************************)
MaxEntries == 4
MaxEnhanced == 3

(***************************************************************************)
(* Ledger entries (beancount.core.data).  A Posting is the 6-tuple         *)
(* (account, units, cost, price, flag, meta).                              *)
(***************************************************************************)
Posting(account, units, cost, price, flag, meta) ==
    [account |-> account, units |-> units, cost |-> cost,
     price |-> price, flag |-> flag, meta |-> meta]

\* a posting as a ledger file holds it: an amount, nothing else
LedgerPosting(account) == Posting(account, Str("10.00 USD"), None, None, None, None)

Date(y, m, d) == [year |-> y, month |-> m, day |-> d]

Txn(id, date, payee, narration, postings) ==
    [kind |-> "Transaction", id |-> id, date |-> date, payee |-> payee,
     narration |-> narration, postings |-> postings]

Directive(kind, id) == [kind |-> kind, id |-> id]

\* isinstance(entry, Transaction)
IsTransaction(entry) == entry.kind = "Transaction"

(***************************************************************************)
(* merge_non_transaction_entries                                           *)
(***************************************************************************)
\* The for loop from position i on; k elements of the iterator are consumed
\* and acc is enhanced_entries so far.  next() on an exhausted iterator
\* raises StopIteration, which nothing catches.
RECURSIVE MergeLoop(_, _, _, _, _)
MergeLoop(imported_entries, enhanced_transactions, i, k, acc) ==
    IF i > Len(imported_entries) THEN List(acc)
    ELSE IF IsTransaction(imported_entries[i])
         THEN IF k >= Len(enhanced_transactions)
              THEN Raise("StopIteration")
              ELSE MergeLoop(imported_entries, enhanced_transactions, i + 1, k + 1,
                             Append(acc, enhanced_transactions[k + 1]))
         ELSE MergeLoop(imported_entries, enhanced_transactions, i + 1, k,
                        Append(acc, imported_entries[i]))

\* the iterator starts one element late
merge_skipping_first(imported_entries, enhanced_transactions) ==
    MergeLoop(imported_entries, enhanced_transactions, 1, 1, <<>>)

\* an exhausted iterator stops the walk instead of raising
RECURSIVE MergeLoopTruncating(_, _, _, _, _)
MergeLoopTruncating(imported_entries, enhanced_transactions, i, k, acc) ==
    IF i > Len(imported_entries) THEN List(acc)
    ELSE IF IsTransaction(imported_entries[i])
         THEN IF k >= Len(enhanced_transactions)
              THEN List(acc)
              ELSE MergeLoopTruncating(imported_entries, enhanced_transactions, i + 1, k + 1,
                                       Append(acc, enhanced_transactions[k + 1]))
         ELSE MergeLoopTruncating(imported_entries, enhanced_transactions, i + 1, k,
                                  Append(acc, imported_entries[i]))

merge_truncating(imported_entries, enhanced_transactions) ==
    MergeLoopTruncating(imported_entries, enhanced_transactions, 1, 0, <<>>)

merge_non_transaction_entries(imported_entries, enhanced_transactions) ==
    MergeLoop(imported_entries, enhanced_transactions, 1, 0, <<>>)

\* The entries an importer yields, and the transactions a predictor hands back
ImportedEntry ==
    { Txn(1, Date(2024, 3, 15), None, "Txn1", <<LedgerPosting("Assets:Bank")>>),
      Txn(2, Date(2024, 3, 16), None, "Txn2", <<LedgerPosting("Assets:Bank")>>),
      Directive("Open", 3),
      Directive("Note", 4) }

EnhancedTransaction ==
    { Txn(id, Date(2024, 3, 15), Str("Shop"), "enhanced",
          <<LedgerPosting("Assets:Bank"), Posting("Expenses:Food", None, None, None, None, None)>>)
      : id \in 11..13 }

Merge ==
    /\ op = "init"
    /\ \E imported_entries \in SeqsUpTo(ImportedEntry, MaxEntries),
          enhanced_transactions \in SeqsUpTo(EnhancedTransaction, MaxEnhanced) :
        /\ op' = "merge_non_transaction_entries"
        /\ args' = [imported_entries |-> imported_entries,
                    enhanced_transactions |-> enhanced_transactions]
        /\ result' = merge_non_transaction_entries(imported_entries, enhanced_transactions)
        /\ UNCHANGED <<heap, pre>>

InitPure ==
    /\ op = "init"
    /\ args = <<>>
    /\ result = None
    /\ heap = NoObjects
    /\ pre = NoObjects

NextMerge == Merge

SpecMerge == InitPure /\ [][NextMerge]_vars

\* Number of transaction-kind entries among the first n of s
RECURSIVE TxnsBefore(_, _)
TxnsBefore(s, n) ==
    IF n = 0 THEN 0
    ELSE TxnsBefore(s, n - 1) + (IF IsTransaction(s[n]) THEN 1 ELSE 0)

Merged == op = "merge_non_transaction_entries"

\* C1: when enhanced_transactions has exactly one element per transaction of
\* imported_entries, the merge returns a list as long as imported_entries whose
\* i-th element is imported_entries[i] if that is no transaction and otherwise
\* enhanced_transactions[k+1], k the number of transactions before position i.
C1_MergeInterleaves ==
    (Merged /\ Len(args.enhanced_transactions)
                 = TxnsBefore(args.imported_entries, Len(args.imported_entries)))
    => /\ result.tag = "list"
       /\ Len(result.items) = Len(args.imported_entries)
       /\ \A i \in 1..Len(args.imported_entries) :
            result.items[i] =
                IF IsTransaction(args.imported_entries[i])
                THEN args.enhanced_transactions[TxnsBefore(args.imported_entries, i - 1) + 1]
                ELSE args.imported_entries[i]

\* the spec's example: [Open, Txn1, Note, Txn2] and [Txn1', Txn2']
C1_Witness ==
    /\ Merged
    /\ Len(args.imported_entries) = 4
    /\ args.imported_entries[1].kind = "Open"
    /\ args.imported_entries[2].kind = "Transaction"
    /\ args.imported_entries[3].kind = "Note"
    /\ args.imported_entries[4].kind = "Transaction"
    /\ Len(args.enhanced_transactions) = 2
    /\ args.enhanced_transactions[1] # args.enhanced_transactions[2]
    /\ result.tag = "list"
    /\ result.items = <<args.imported_entries[1], args.enhanced_transactions[1],
                        args.imported_entries[3], args.enhanced_transactions[2]>>

NumTxns == TxnsBefore(args.imported_entries, Len(args.imported_entries))

\* C9 as claimed: whenever enhanced_transactions has fewer or more elements
\* than imported_entries has transactions, the call ends in StopIteration.
C9_MismatchAlwaysRaises ==
    (Merged /\ Len(args.enhanced_transactions) # NumTxns)
    => result = Raise("StopIteration")

\* C9 amended: with fewer elements than transactions the call ends in
\* StopIteration and returns nothing; with more it returns the merge of the
\* first NumTxns elements, as long as imported_entries, and the surplus
\* elements are left unconsumed.
C9_FewerRaisesMoreIgnored ==
    Merged =>
        /\ Len(args.enhanced_transactions) < NumTxns => result = Raise("StopIteration")
        /\ Len(args.enhanced_transactions) > NumTxns =>
              /\ result.tag = "list"
              /\ Len(result.items) = Len(args.imported_entries)
              /\ \A i \in 1..Len(args.imported_entries) :
                    result.items[i] =
                        IF IsTransaction(args.imported_entries[i])
                        THEN args.enhanced_transactions[TxnsBefore(args.imported_entries, i - 1) + 1]
                        ELSE args.imported_entries[i]

\* both mismatches happen: one transaction and no element; one and two
C9_Witness ==
    /\ Merged
    /\ NumTxns = 1
    /\ Len(args.enhanced_transactions) = 2
    /\ result.tag = "list"
    /\ \E i \in 1..Len(result.items) : result.items[i] = args.enhanced_transactions[1]
    /\ \A i \in 1..Len(result.items) : result.items[i] # args.enhanced_transactions[2]

(***************************************************************************)
(* load_training_data                                                      *)
(***************************************************************************)
MaxTraining == 2

BankAccount == "Assets:Bank"
FoodAccount == "Expenses:Food"

\* The entries of a ledger: transactions on one account, on both, on none,
\* and a directive that is no transaction
LedgerEntry ==
    { Txn(1, Date(2024, 3, 15), Str("Shop"), "bank only", <<LedgerPosting(BankAccount)>>),
      Txn(2, Date(2024, 3, 16), None, "bank and food",
          <<LedgerPosting(BankAccount), LedgerPosting(FoodAccount)>>),
      Txn(3, Date(2024, 3, 17), None, "food only", <<LedgerPosting(FoodAccount)>>),
      Txn(4, Date(2024, 3, 18), None, "no postings", <<>>),
      Directive("Open", 5) }

\* The ledger files on disk, by path.  loader.load_file returns the entries
\* of the file, and no entry (with a LoadError it reports, not raises) for a
\* path that names no file.
LedgerFiles ==
    [p \in {"ledger.beancount"} |->
        << Directive("Open", 5),
           Txn(1, Date(2024, 3, 15), Str("Shop"), "bank only", <<LedgerPosting(BankAccount)>>),
           Txn(3, Date(2024, 3, 17), None, "food only", <<LedgerPosting(FoodAccount)>> ) >>]

load_file(path) == IF path \in DOMAIN LedgerFiles THEN LedgerFiles[path] ELSE <<>>

\* beancount's filter_txns: the entries that are Transaction instances
filter_txns(entries) == SelectSeq(entries, IsTransaction)

\* tests only the first posting
FirstPostingOnAccount(txn, known_account) ==
    Len(txn.postings) > 0 /\ txn.postings[1].account = known_account

\* any([pos.account == known_account for pos in txn.postings])
InvolvesAccount(txn, known_account) ==
    \E i \in 1..Len(txn.postings) : txn.postings[i].account = known_account

\* the explicit value wins only when no fallback is given
ResolveSourcePreferFallback(training_data, existing_entries) ==
    IF Truthy(existing_entries) THEN existing_entries
    ELSE IF training_data.tag = "str" THEN List(load_file(training_data.val))
    ELSE training_data

\* lines 32-37: which value training_data is bound to before the filters
ResolveSource(training_data, existing_entries) ==
    IF ~Truthy(training_data) /\ Truthy(existing_entries) THEN existing_entries
    ELSE IF training_data.tag = "str" THEN List(load_file(training_data.val))
    ELSE training_data

\* lines 39-40
FilterTransactions(training_data) ==
    IF Truthy(training_data) THEN List(filter_txns(training_data.items))
    ELSE training_data

\* lines 41-45: iterating None raises TypeError
FilterAccount(training_data, known_account) ==
    IF Truthy(known_account)
    THEN IF training_data.tag = "list"
         THEN List(SelectSeq(training_data.items,
                             LAMBDA txn : InvolvesAccount(txn, known_account.val)))
         ELSE Raise("TypeError")
    ELSE training_data

load_training_data(training_data, known_account, existing_entries) ==
    FilterAccount(FilterTransactions(ResolveSource(training_data, existing_entries)),
                  known_account)

TrainingData ==
    {None} \cup {List(s) : s \in SeqsUpTo(LedgerEntry, MaxTraining)}
           \cup {Str(p) : p \in {"", "ledger.beancount", "missing.beancount"}}

ExistingEntries == {None} \cup {List(s) : s \in SeqsUpTo(LedgerEntry, MaxTraining)}

KnownAccount == {None, Str(BankAccount), Str(FoodAccount)}

Load ==
    /\ op = "init"
    /\ \E training_data \in TrainingData, known_account \in KnownAccount,
          existing_entries \in ExistingEntries :
        /\ op' = "load_training_data"
        /\ args' = [training_data |-> training_data, known_account |-> known_account,
                    existing_entries |-> existing_entries]
        /\ result' = load_training_data(training_data, known_account, existing_entries)
        /\ UNCHANGED <<heap, pre>>

NextLoad == Load

SpecLoad == InitPure /\ [][NextLoad]_vars

Loaded == op = "load_training_data"

\* The transactions of a sequence of entries, in order
TransactionsOf(entries) ==
    SelectSeq(entries, LAMBDA e : e.kind = "Transaction")

\* The transactions of entries with a posting on account, in order
TransactionsOn(entries, account) ==
    SelectSeq(entries, LAMBDA e :
        /\ e.kind = "Transaction"
        /\ account \in {e.postings[i].account : i \in 1..Len(e.postings)})

ExplicitList == args.training_data.tag = "list" /\ args.training_data.items # <<>>

EmptyOrAbsent == args.training_data \in {None, List(<<>>)}

Expected(entries) ==
    IF args.known_account = None THEN List(TransactionsOf(entries))
    ELSE List(TransactionsOn(entries, args.known_account.val))

HasSource ==
    \/ Truthy(args.training_data)
    \/ Truthy(args.existing_entries)
    \/ args.training_data # None

SourceEntries ==
    IF Truthy(args.training_data)
    THEN IF args.training_data.tag = "list" THEN args.training_data.items
         ELSE load_file(args.training_data.val)
    ELSE IF Truthy(args.existing_entries) THEN args.existing_entries.items
    ELSE <<>>

\* C3: when known_account is given, the output is exactly the transactions of
\* the resolved source that have a posting on known_account, in their original
\* order: each transaction of the output has such a posting and none that has
\* one is dropped.
C3_AccountFilter ==
    (Loaded /\ args.known_account # None /\ HasSource) =>
        /\ result.tag = "list"
        /\ \A i \in 1..Len(result.items) :
             \E j \in 1..Len(result.items[i].postings) :
                result.items[i].postings[j].account = args.known_account.val
        /\ result.items = TransactionsOn(SourceEntries, args.known_account.val)

\* a transaction on the account is kept and one on another account dropped
C3_Witness ==
    /\ Loaded
    /\ args.known_account = Str(BankAccount)
    /\ HasSource
    /\ Len(TransactionsOf(SourceEntries)) = 2
    /\ result.tag = "list"
    /\ Len(result.items) = 1
    /\ Len(result.items[1].postings) = 2

InMemory(x) == x.tag \in {"None", "list"}

\* C10: for every in-memory training_data and existing_entries (a list, an
\* empty list or absent) and known_account given or not, the call completes
\* and returns a sequence whose every element is a transaction.
C10_ReturnsTransactionList ==
    (Loaded /\ InMemory(args.training_data) /\ InMemory(args.existing_entries)) =>
        /\ result.tag = "list"
        /\ \A i \in 1..Len(result.items) : result.items[i].kind = "Transaction"

(***************************************************************************)
(* json.dumps and json.loads on a list of strings.  A string is a sequence *)
(* of characters and a JSON text is one too.                               *)
(***************************************************************************)
MaxStrLen == 1
MaxSuggestions == 2

\* a letter, the two characters JSON escapes with a backslash, and a control
\* character
Char == {"a", "\"", "\\", "\n"}

StrChars == SeqsUpTo(Char, MaxStrLen)

Suggestions == SeqsUpTo(StrChars, MaxSuggestions)

\* a str whose characters matter: the value json.dumps returns
Text(chars) == [tag |-> "text", chars |-> chars]

\* copies every character as it is
EscapeNothing(c) == <<c>>

\* json.encoder's escape table (ESCAPE_DCT), for the characters of Char
EscapeChar(c) ==
    CASE c = "\"" -> <<"\\", "\"">>
      [] c = "\\" -> <<"\\", "\\">>
      [] c = "\n" -> <<"\\", "n">>
      [] OTHER    -> <<c>>

RECURSIVE EscapeChars(_)
EscapeChars(s) ==
    IF s = <<>> THEN <<>> ELSE EscapeChar(Head(s)) \o EscapeChars(Tail(s))

\* py_encode_basestring_ascii: the escaped characters between quotes
encode_basestring(s) == <<"\"">> \o EscapeChars(s) \o <<"\"">>

\* the items joined by the default item separator ", "
RECURSIVE JoinItems(_)
JoinItems(items) ==
    IF items = <<>> THEN <<>>
    ELSE IF Len(items) = 1 THEN encode_basestring(items[1])
    ELSE encode_basestring(Head(items)) \o <<",", " ">> \o JoinItems(Tail(items))

\* json.dumps(suggestions) for a list of str
json_dumps(suggestions) == Text(<<"[">> \o JoinItems(suggestions) \o <<"]">>)

\* json.decoder's scanstring (strict): from position i, after the opening
\* quote, to the closing quote.  [ok, val, next]
RECURSIVE ScanString(_, _, _)
ScanString(text, i, acc) ==
    IF i > Len(text) THEN [ok |-> FALSE]
    ELSE IF text[i] = "\"" THEN [ok |-> TRUE, val |-> acc, next |-> i + 1]
    ELSE IF text[i] = "\\"
         THEN IF i + 1 > Len(text) THEN [ok |-> FALSE]
              ELSE IF text[i + 1] = "\"" THEN ScanString(text, i + 2, Append(acc, "\""))
              ELSE IF text[i + 1] = "\\" THEN ScanString(text, i + 2, Append(acc, "\\"))
              ELSE IF text[i + 1] = "n" THEN ScanString(text, i + 2, Append(acc, "\n"))
              ELSE [ok |-> FALSE]
    ELSE IF text[i] = "\n" THEN [ok |-> FALSE]
    ELSE ScanString(text, i + 1, Append(acc, text[i]))

\* the position of the first character at or after i that is no whitespace
RECURSIVE SkipWhitespace(_, _)
SkipWhitespace(text, i) ==
    IF i <= Len(text) /\ text[i] \in {" ", "\n"} THEN SkipWhitespace(text, i + 1) ELSE i

\* JSONArray: the items from position i on, an item being a string here
RECURSIVE ScanItems(_, _, _)
ScanItems(text, i, acc) ==
    IF i > Len(text) \/ text[i] # "\"" THEN Raise("JSONDecodeError")
    ELSE LET str == ScanString(text, i + 1, <<>>) IN
         IF ~str.ok THEN Raise("JSONDecodeError")
         ELSE LET j == SkipWhitespace(text, str.next) IN
              IF j > Len(text) THEN Raise("JSONDecodeError")
              ELSE IF text[j] = "]"
                   THEN IF SkipWhitespace(text, j + 1) > Len(text)
                        THEN List(Append(acc, str.val))
                        ELSE Raise("JSONDecodeError")
              ELSE IF text[j] = ","
                   THEN ScanItems(text, SkipWhitespace(text, j + 1), Append(acc, str.val))
              ELSE Raise("JSONDecodeError")

\* json.loads of a text that should hold a list of strings
json_loads(text) ==
    LET i == SkipWhitespace(text.chars, 1) IN
    IF i > Len(text.chars) \/ text.chars[i] # "[" THEN Raise("JSONDecodeError")
    ELSE LET j == SkipWhitespace(text.chars, i + 1) IN
         IF j <= Len(text.chars) /\ text.chars[j] = "]"
         THEN IF SkipWhitespace(text.chars, j + 1) > Len(text.chars)
              THEN List(<<>>)
              ELSE Raise("JSONDecodeError")
         ELSE ScanItems(text.chars, j, <<>>)

(***************************************************************************)
(* The annotators.  A Transaction is an immutable tuple; its postings      *)
(* field refers to a list object and its meta field to a dict object, both *)
(* in heap.  Each function takes the heap and returns [ret, heap]: the     *)
(* value returned and the objects after the call.                          *)
(***************************************************************************)
MaxPostings == 2

METADATA_KEY_SUGGESTED_ACCOUNTS == "__suggested_accounts__"
METADATA_KEY_SUGGESTED_PAYEES == "__suggested_payees__"

PostingsRef == 1
MetaRef == 2

Transaction(date, payee, narration, postings, meta) ==
    [kind |-> "Transaction", date |-> date, payee |-> payee,
     narration |-> narration, postings |-> postings, meta |-> meta]

\* transaction._replace(payee=payee): a new tuple, the other fields shared
ReplacePayee(transaction, payee) == [transaction EXCEPT !.payee = payee]

\* transaction._replace(meta=meta): a new tuple referring to the dict meta
ReplaceMeta(transaction, meta) == [transaction EXCEPT !.meta = meta]

\* d[key] = value on a dict object
DictSet(d, key, value) ==
    [k \in DOMAIN d \cup {key} |-> IF k = key THEN value ELSE d[k]]

\* the guard lets transactions without postings through too
add_posting_unless_several(h, transaction, account) ==
    IF Len(h[transaction.postings]) > 1
    THEN [ret |-> transaction, heap |-> h]
    ELSE [ret |-> transaction,
          heap |-> [h EXCEPT ![transaction.postings] =
                        Append(@, Posting(account, None, None, None, None, None))]]

add_posting_to_transaction(h, transaction, account) ==
    IF Len(h[transaction.postings]) # 1
    THEN [ret |-> transaction, heap |-> h]
    ELSE [ret |-> transaction,
          heap |-> [h EXCEPT ![transaction.postings] =
                        Append(@, Posting(account, None, None, None, None, None))]]

\* the overwrite flag is not consulted
add_payee_if_missing(h, transaction, payee, overwrite) ==
    IF ~Truthy(transaction.payee)
    THEN [ret |-> ReplacePayee(transaction, payee), heap |-> h]
    ELSE [ret |-> transaction, heap |-> h]

add_payee_to_transaction(h, transaction, payee, overwrite) ==
    IF ~Truthy(transaction.payee) \/ overwrite
    THEN [ret |-> ReplacePayee(transaction, payee), heap |-> h]
    ELSE [ret |-> transaction, heap |-> h]

\* meta is the transaction's own dict object, not a copy: the assignment
\* writes the object every holder of the transaction sees
_add_suggestions_to_transaction(h, transaction, suggestions, key) ==
    [ret  |-> ReplaceMeta(transaction, transaction.meta),
     heap |-> [h EXCEPT ![transaction.meta] = DictSet(@, key, json_dumps(suggestions))]]

add_suggested_accounts_to_transaction(h, transaction, suggestions) ==
    _add_suggestions_to_transaction(h, transaction, suggestions,
                                    METADATA_KEY_SUGGESTED_ACCOUNTS)

add_suggested_payees_to_transaction(h, transaction, suggestions) ==
    _add_suggestions_to_transaction(h, transaction, suggestions,
                                    METADATA_KEY_SUGGESTED_PAYEES)

Account == {BankAccount, FoodAccount}

\* the payee of an imported transaction: none, empty, or a name
ImportedPayee == {None, Str(""), Str("Shop")}

NewPayee == {Str("Shop"), Str("Market")}

\* the metadata a parsed or imported transaction carries
PlainMeta == [k \in {"lineno"} |-> [tag |-> "int", val |-> 12]]

\* metadata after earlier annotation calls
ImportedMeta ==
    { PlainMeta,
      DictSet(PlainMeta, METADATA_KEY_SUGGESTED_ACCOUNTS, json_dumps(<< <<"a">> >>)),
      DictSet(PlainMeta, METADATA_KEY_SUGGESTED_PAYEES, json_dumps(<< <<"a">> >>)),
      DictSet(DictSet(PlainMeta, METADATA_KEY_SUGGESTED_ACCOUNTS, json_dumps(<< <<"a">> >>)),
              METADATA_KEY_SUGGESTED_PAYEES, json_dumps(<<>>)) }

\* an imported transaction has its first postings on the bank account
ImportedPostings == {[i \in 1..n |-> LedgerPosting(BankAccount)] : n \in 0..MaxPostings}

\* The transaction in hand: args.transaction, and its objects in heap
InitAnnotate ==
    /\ op = "init"
    /\ \E payee \in ImportedPayee :
         args = [transaction |-> Transaction(Date(2024, 3, 15), payee, "groceries",
                                             PostingsRef, MetaRef)]
    /\ result = None
    /\ \E postings \in ImportedPostings, meta \in ImportedMeta :
         heap = [r \in {PostingsRef, MetaRef} |-> IF r = PostingsRef THEN postings ELSE meta]
    /\ pre = heap

Call(name, extra, outcome) ==
    /\ op' = name
    /\ args' = [k \in DOMAIN args \cup DOMAIN extra |->
                   IF k \in DOMAIN extra THEN extra[k] ELSE args[k]]
    /\ result' = outcome.ret
    /\ heap' = outcome.heap
    /\ pre' = heap

AddPosting ==
    /\ op = "init"
    /\ \E account \in Account :
         Call("add_posting_to_transaction", [account |-> account],
              add_posting_to_transaction(heap, args.transaction, account))

AddPayee ==
    /\ op = "init"
    /\ \E payee \in NewPayee, overwrite \in BOOLEAN :
         Call("add_payee_to_transaction", [payee |-> payee, overwrite |-> overwrite],
              add_payee_to_transaction(heap, args.transaction, payee, overwrite))

AddSuggestedAccounts ==
    /\ op = "init"
    /\ \E suggestions \in Suggestions :
         Call("add_suggested_accounts_to_transaction", [suggestions |-> suggestions],
              add_suggested_accounts_to_transaction(heap, args.transaction, suggestions))

AddSuggestedPayees ==
    /\ op = "init"
    /\ \E suggestions \in Suggestions :
         Call("add_suggested_payees_to_transaction", [suggestions |-> suggestions],
              add_suggested_payees_to_transaction(heap, args.transaction, suggestions))

NextAnnotate == AddPosting \/ AddPayee \/ AddSuggestedAccounts \/ AddSuggestedPayees

SpecAnnotate == InitAnnotate /\ [][NextAnnotate]_vars

\* The postings and the metadata seen through a transaction tuple
PostingsOf(h, transaction) == h[transaction.postings]

MetaOf(h, transaction) == h[transaction.meta]

Unset(posting) ==
    /\ posting.units = None
    /\ posting.cost = None
    /\ posting.price = None
    /\ posting.flag = None
    /\ posting.meta = None

\* C4: add_posting_to_transaction on a transaction with exactly one posting
\* gives a transaction with exactly two, the first the original posting, the
\* second on the given account with every other field unset; on a transaction
\* with no posting or with several it gives the input, unchanged.
C4_PostingNormalizer ==
    op = "add_posting_to_transaction" =>
        IF Len(PostingsOf(pre, args.transaction)) = 1
        THEN /\ result.kind = "Transaction"
             /\ Len(PostingsOf(heap, result)) = 2
             /\ PostingsOf(heap, result)[1] = PostingsOf(pre, args.transaction)[1]
             /\ PostingsOf(heap, result)[2].account = args.account
             /\ Unset(PostingsOf(heap, result)[2])
        ELSE /\ result = args.transaction
             /\ PostingsOf(heap, result) = PostingsOf(pre, args.transaction)
             /\ heap = pre

\* a posting was appended
C4_Witness ==
    /\ op = "add_posting_to_transaction"
    /\ Len(PostingsOf(pre, args.transaction)) = 1
    /\ Len(PostingsOf(heap, result)) = 2
    /\ PostingsOf(heap, result)[2].account = FoodAccount

\* A transaction is without a payee when its payee is None or empty
WithoutPayee(transaction) == transaction.payee \in {None, Str("")}

\* C5: add_payee_to_transaction gives payee p to a transaction without a
\* payee; with overwrite=False it leaves an existing payee as it is; with
\* overwrite=True the payee is p whatever it was.
C5_PayeeOverwrite ==
    op = "add_payee_to_transaction" =>
        /\ result.kind = "Transaction"
        /\ WithoutPayee(args.transaction) => result.payee = args.payee
        /\ (~WithoutPayee(args.transaction) /\ ~args.overwrite)
             => result.payee = args.transaction.payee
        /\ args.overwrite => result.payee = args.payee

\* an existing payee is kept
C5_Witness ==
    /\ op = "add_payee_to_transaction"
    /\ args.transaction.payee = Str("Shop")
    /\ args.payee = Str("Market")
    /\ ~args.overwrite
    /\ result.payee = Str("Shop")

Annotated ==
    op \in {"add_payee_to_transaction", "add_suggested_accounts_to_transaction",
            "add_suggested_payees_to_transaction"}

\* C6: after add_payee_to_transaction, add_suggested_accounts_to_transaction
\* or add_suggested_payees_to_transaction is called on t, the payee and the
\* metadata seen through t are what they were before the call.
C6_OriginalNotMutated ==
    Annotated =>
        /\ MetaOf(heap, args.transaction) = MetaOf(pre, args.transaction)
        /\ heap = pre

SuggestionKey ==
    IF op = "add_suggested_accounts_to_transaction" THEN METADATA_KEY_SUGGESTED_ACCOUNTS
    ELSE METADATA_KEY_SUGGESTED_PAYEES

Suggested ==
    op \in {"add_suggested_accounts_to_transaction", "add_suggested_payees_to_transaction"}

\* C7: the transaction add_suggested_accounts_to_transaction(t, s) returns has
\* under '__suggested_accounts__' a text that decodes as JSON to exactly s, and
\* add_suggested_payees_to_transaction the same under '__suggested_payees__';
\* the call changes the value of no other key of the metadata.
C7_SuggestionRoundTrip ==
    Suggested =>
        /\ result.kind = "Transaction"
        /\ SuggestionKey \in DOMAIN MetaOf(heap, result)
        /\ json_loads(MetaOf(heap, result)[SuggestionKey]) = List(args.suggestions)
        /\ DOMAIN MetaOf(heap, result) = DOMAIN MetaOf(pre, args.transaction) \cup {SuggestionKey}
        /\ \A k \in DOMAIN MetaOf(pre, args.transaction) \ {SuggestionKey} :
             MetaOf(heap, result)[k] = MetaOf(pre, args.transaction)[k]

\* a later call for the payees key, with strings that need escaping, on a
\* transaction that has suggested accounts already
C7_Witness ==
    /\ op = "add_suggested_payees_to_transaction"
    /\ METADATA_KEY_SUGGESTED_ACCOUNTS \in DOMAIN MetaOf(pre, args.transaction)
    /\ METADATA_KEY_SUGGESTED_PAYEES \in DOMAIN MetaOf(pre, args.transaction)
    /\ args.suggestions = << <<"\"">>, <<"\\">> >>
    /\ MetaOf(heap, result)[METADATA_KEY_SUGGESTED_PAYEES]
         # MetaOf(pre, args.transaction)[METADATA_KEY_SUGGESTED_PAYEES]
    /\ MetaOf(heap, result)[METADATA_KEY_SUGGESTED_PAYEES].chars
         = <<"[", "\"", "\\", "\"", "\"", ",", " ", "\"", "\\", "\\", "\"", "]">>
    /\ MetaOf(heap, result)[METADATA_KEY_SUGGESTED_ACCOUNTS]
         = MetaOf(pre, args.transaction)[METADATA_KEY_SUGGESTED_ACCOUNTS]

(***************************************************************************)
(* The field-extraction adapters.  transform is a list comprehension over  *)
(* data; an exception in one element's projection ends the whole call.     *)
(***************************************************************************)
MaxData == 3

CashAccount == "Assets:Cash"

TxnPostingAccount(txn, posting, account) ==
    [kind |-> "TxnPostingAccount", txn |-> txn, posting |-> posting, account |-> account]

IntVal(n) == [tag |-> "int", val |-> n]

\* isinstance(d, TxnPostingAccount)
IsTxnPostingAccount(d) == d.kind = "TxnPostingAccount"

\* [f(d) for d in data], vals[i] being f(data[i]): the list of the
\* projections, or the exception of the first element whose projection raises
Comprehension(vals) ==
    LET raising == {i \in 1..Len(vals) : vals[i].tag = "raise"}
    IN  IF raising = {} THEN List(vals)
        ELSE vals[CHOOSE i \in raising : \A j \in raising : i <= j]

\* x or ''
OrEmpty(x) == IF Truthy(x) THEN x ELSE Str("")

\* postings[-1].account and postings[0].account: indexing an empty list
\* raises IndexError
LastAccount(postings) ==
    IF postings = <<>> THEN Raise("IndexError") ELSE Str(postings[Len(postings)].account)

FirstAccount(postings) ==
    IF postings = <<>> THEN Raise("IndexError") ELSE Str(postings[1].account)

_get_payee(d) ==
    IF IsTransaction(d) THEN OrEmpty(d.payee)
    ELSE IF IsTxnPostingAccount(d) THEN OrEmpty(d.txn.payee)
    ELSE None

_get_narration(d) ==
    IF IsTransaction(d) THEN Str(d.narration)
    ELSE IF IsTxnPostingAccount(d) THEN Str(d.txn.narration)
    ELSE None

\* reads the first posting, as the reference adapter does
GetPostingAccount_first_posting(d) ==
    IF IsTransaction(d) THEN FirstAccount(d.postings)
    ELSE IF IsTxnPostingAccount(d) THEN Str(d.posting.account)
    ELSE None

GetPostingAccount_get_posting_account(d) ==
    IF IsTransaction(d) THEN LastAccount(d.postings)
    ELSE IF IsTxnPostingAccount(d) THEN Str(d.posting.account)
    ELSE None

GetReferencePostingAccount_get_posting_account(d) ==
    IF IsTransaction(d) THEN FirstAccount(d.postings)
    ELSE IF IsTxnPostingAccount(d) THEN Str(d.account)
    ELSE None

_get_day_of_month(d) ==
    IF IsTransaction(d) THEN IntVal(d.date.day)
    ELSE IF IsTxnPostingAccount(d) THEN IntVal(d.txn.date.day)
    ELSE None

GetPayee_transform(data) ==
    Comprehension([i \in 1..Len(data) |-> _get_payee(data[i])])

GetNarration_transform(data) ==
    Comprehension([i \in 1..Len(data) |-> _get_narration(data[i])])

GetPostingAccount_transform(data) ==
    Comprehension([i \in 1..Len(data) |-> GetPostingAccount_get_posting_account(data[i])])

GetReferencePostingAccount_transform(data) ==
    Comprehension([i \in 1..Len(data) |->
                      GetReferencePostingAccount_get_posting_account(data[i])])

GetDayOfMonth_transform(data) ==
    Comprehension([i \in 1..Len(data) |-> _get_day_of_month(data[i])])

\* The elements handed to an adapter: transactions with two postings, one
\* and none, the posting-wise triples of a transaction, and a directive,
\* which is neither shape
TwoPostings ==
    Txn(1, Date(2024, 3, 15), None, "bank and food",
        <<LedgerPosting(BankAccount), LedgerPosting(FoodAccount)>>)

OnePosting ==
    Txn(2, Date(2024, 3, 16), Str("Shop"), "bank only", <<LedgerPosting(BankAccount)>>)

NoPostings == Txn(3, Date(2024, 3, 17), Str(""), "no postings", <<>>)

DataElement ==
    { TwoPostings, OnePosting, NoPostings,
      TxnPostingAccount(TwoPostings, TwoPostings.postings[2], CashAccount),
      TxnPostingAccount(OnePosting, OnePosting.postings[1], CashAccount),
      Directive("Open", 5) }

Data == SeqsUpTo(DataElement, MaxData)

GetPayeeTransform ==
    /\ op = "init"
    /\ \E data \in Data :
        /\ op' = "GetPayee.transform"
        /\ args' = [data |-> data]
        /\ result' = GetPayee_transform(data)
        /\ UNCHANGED <<heap, pre>>

GetNarrationTransform ==
    /\ op = "init"
    /\ \E data \in Data :
        /\ op' = "GetNarration.transform"
        /\ args' = [data |-> data]
        /\ result' = GetNarration_transform(data)
        /\ UNCHANGED <<heap, pre>>

GetPostingAccountTransform ==
    /\ op = "init"
    /\ \E data \in Data :
        /\ op' = "GetPostingAccount.transform"
        /\ args' = [data |-> data]
        /\ result' = GetPostingAccount_transform(data)
        /\ UNCHANGED <<heap, pre>>

GetReferencePostingAccountTransform ==
    /\ op = "init"
    /\ \E data \in Data :
        /\ op' = "GetReferencePostingAccount.transform"
        /\ args' = [data |-> data]
        /\ result' = GetReferencePostingAccount_transform(data)
        /\ UNCHANGED <<heap, pre>>

GetDayOfMonthTransform ==
    /\ op = "init"
    /\ \E data \in Data :
        /\ op' = "GetDayOfMonth.transform"
        /\ args' = [data |-> data]
        /\ result' = GetDayOfMonth_transform(data)
        /\ UNCHANGED <<heap, pre>>

NextExtract ==
    \/ GetPayeeTransform
    \/ GetNarrationTransform
    \/ GetPostingAccountTransform
    \/ GetReferencePostingAccountTransform
    \/ GetDayOfMonthTransform

SpecExtract == InitPure /\ [][NextExtract]_vars

Transformed ==
    op \in {"GetPayee.transform", "GetNarration.transform", "GetPostingAccount.transform",
            "GetReferencePostingAccount.transform", "GetDayOfMonth.transform"}

Supported(d) == d.kind \in {"Transaction", "TxnPostingAccount"}

AllSupported == \A i \in 1..Len(args.data) : Supported(args.data[i])

\* The transaction an element is about
TxnOf(d) == IF d.kind = "Transaction" THEN d ELSE d.txn

\* The scalar the adapter called last is to give for d
Scalar(d) ==
    CASE op = "GetPayee.transform" ->
            IF TxnOf(d).payee = None THEN Str("") ELSE TxnOf(d).payee
      [] op = "GetNarration.transform" -> Str(TxnOf(d).narration)
      [] op = "GetPostingAccount.transform" ->
            IF d.kind = "Transaction" THEN Str(d.postings[Len(d.postings)].account)
            ELSE Str(d.posting.account)
      [] op = "GetReferencePostingAccount.transform" ->
            IF d.kind = "Transaction" THEN Str(d.postings[1].account)
            ELSE Str(d.account)
      [] op = "GetDayOfMonth.transform" -> IntVal(TxnOf(d).date.day)

OnePerElement ==
    /\ result.tag = "list"
    /\ Len(result.items) = Len(args.data)
    /\ \A i \in 1..Len(args.data) : result.items[i] = Scalar(args.data[i])

\* C8 as claimed: for every list of bare transactions and triples, each
\* adapter's transform returns one scalar per element, in order: the payee or
\* '', the narration, the last posting's account (the triple's posting's), the
\* first posting's account (the triple's reference account), the day of month.
C8_OneScalarPerElement ==
    (Transformed /\ AllSupported) => OnePerElement

PostingAdapter ==
    op \in {"GetPostingAccount.transform", "GetReferencePostingAccount.transform"}

SomeBareWithoutPostings ==
    \E i \in 1..Len(args.data) :
        args.data[i].kind = "Transaction" /\ args.data[i].postings = <<>>

\* C8 amended: the same, except that GetPostingAccount and
\* GetReferencePostingAccount return it only when every bare transaction of
\* the list has at least one posting; given a bare transaction without
\* postings their transform raises IndexError and returns nothing.
C8_OneScalarPerElementWithPostings ==
    (Transformed /\ AllSupported) =>
        IF PostingAdapter /\ SomeBareWithoutPostings
        THEN result = Raise("IndexError")
        ELSE OnePerElement

\* the last posting of a bare transaction and the posting of a triple
C8_Witness ==
    /\ op = "GetPostingAccount.transform"
    /\ Len(args.data) = 3
    /\ args.data[1] = TwoPostings
    /\ args.data[2].kind = "TxnPostingAccount"
    /\ args.data[3] = OnePosting
    /\ result = List(<<Str(FoodAccount), Str(args.data[2].posting.account), Str(BankAccount)>>)
====
